---- MODULE Spec2Model ----
(***************************************************************************)
(* The polling and state-reconciliation logic of the dashboard widgets     *)
(* (Svelte components).  Every component keeps its payload, its error and, *)
(* where it has one, its loading flag; onMount starts one fetch and a      *)
(* repeating timer, every timer tick starts another fetch, the             *)
(* continuation of a fetch writes the outcome to the component state, and  *)
(* onDestroy clears the timer.  A click on a record hands its url to the   *)
(* opener plugin.                                                          *)
(*                                                                         *)
(* Strings.  A string is the sequence of its tokens; the string modelled   *)
(* is the concatenation of the tokens (blanks are tokens of their own).    *)
(* The tokens are cut so that every marker the code looks for starts and   *)
(* ends at a token boundary, hence s.includes(m) is "m is a contiguous     *)
(* subsequence of s".                                                      *)
(*                                                                         *)
(* Optional values.  A value of type T | null is <<>> for null and <<v>>   *)
(* for the value v.                                                        *)
(***************************************************************************)
EXTENDS Naturals, Sequences, FiniteSets

VARIABLES
  page,        \* the components placed on the page
  phase,       \* per component: "created", "mounted", "destroyed"
  data,        \* per component: its payload ($state cpuUsage, tickets, ...)
  error,       \* per component: $state error / loadError (string | null)
  isLoading,   \* per component: $state isLoading (FALSE where there is none)
  interval,    \* per component: let interval: number (0: not assigned yet)
  timers,      \* the host's active interval timers (handles)
  nextHandle,  \* the handle the host's next setInterval returns
  started,     \* per component: number of invoke() calls made so far
  pending,     \* per component: the calls (by number) not yet settled
  lastApplied, \* history: number of the call whose outcome was applied last
  lastOutcome, \* history: the outcome applied last
  succeeded,   \* history: some fetch of the component has succeeded
  lastGood,    \* history: payload of the success applied last
  failsSince,  \* history: failures applied since that success
  before,      \* history: the component state the last outcome was applied to
  stops,       \* history: per component, the runs of its teardown
  ticks,       \* history: per component, the firings of its timer
  lastCheckedLabel,  \* HealthUp: the $derived lastCheckedLabel
  openLog,     \* history: the console.error lines of the open-link handlers
  opening,     \* per component: its calls of openUrl not yet settled
  failedAt     \* history: HealthUp, the time the failure applied last was
               \* caught at; 0 when the outcome applied last is no failure

vars == <<page, phase, data, error, isLoading, interval, timers, nextHandle,
          started, pending, lastApplied, lastOutcome, succeeded, lastGood,
          failsSince, before, stops, ticks, lastCheckedLabel, failedAt,
          openLog, opening>>

\* Calls a component may make in one run of the model.
MaxCalls == 3

\* Runs of a component's teardown in one run of the model.
MaxStops == 2

\* Calls each component may make in a run that follows two components.
MaxPairCalls == 2

\* Openings of a link, outstanding or failed, in one run of the model.
MaxOpens == 1

Widgets == {"cpu", "ram", "health", "sentry", "jira", "docker", "spotify", "jiraAlt"}

None == << >>
Some(v) == <<v>>

(***************************************************************************)
(* Strings                                                                 *)
(***************************************************************************)
\* String.prototype.toLowerCase, token by token.
LowerToken(t) ==
  CASE t = "Loading" -> "loading"
    [] t = "Still" -> "still"
    [] t = "HTTP" -> "http"
    [] t = "JIRA_" -> "jira_"
    [] t = "API_TOKEN" -> "api_token"
    [] t = "EMAIL" -> "email"
    [] t = "SENTRY_AUTH_TOKEN" -> "sentry_auth_token"
    [] t = "Spotify" -> "spotify"
    [] t = "macOS" -> "macos"
    [] t = "Failed" -> "failed"
    [] OTHER -> t

toLowerCase(s) == [i \in 1..Len(s) |-> LowerToken(s[i])]

\* String.prototype.includes
includes(s, m) ==
  \E i \in 0..Len(s) :
    /\ i + Len(m) <= Len(s)
    /\ \A j \in 1..Len(m) : s[i + j] = m[j]

\* The failure messages the adapters reject with.
MsgEmpty == << >>
MsgRefused == <<"connection", " ", "refused">>
MsgLoading == <<"Still", " ", "Loading">>
MsgAuthNet == <<"HTTP", " ", "401", " ", "connection", " ", "refused">>
MsgJiraEnv == <<"JIRA_", "API_TOKEN", " ", "environment", " ", "variable", " ", "not", " ", "set">>
MsgJiraAuth == <<"JIRA_", "EMAIL", " ", "rejected", " ", "401">>
MsgAuthLoading == <<"403", " ", "while", " ", "loading">>
MsgSentryEnv == <<"SENTRY_AUTH_TOKEN", " ", "not", " ", "set">>
MsgSentryLoading == <<"loading", " ", "SENTRY_AUTH_TOKEN">>
MsgNotRunning == <<"Spotify", " ", "is", " ", "not", " ", "running">>
MsgOnlySupported == <<"only", " ", "supported", " ", "on", " ", "macOS">>
MsgNoDocker == <<"docker", " ", "command", " ", "not", " ", "found">>
MsgDockerLoading == <<"Failed", " ", "to", " ", "execute", " ", "while", " ", "loading">>

CommonMessages == {MsgEmpty, MsgRefused, MsgLoading, MsgAuthNet}

Messages(w) ==
  CommonMessages \cup
  CASE w \in {"jira", "jiraAlt"} -> {MsgJiraEnv, MsgJiraAuth, MsgAuthLoading}
    [] w = "sentry" -> {MsgSentryEnv, MsgSentryLoading}
    [] w = "spotify" -> {MsgNotRunning, MsgOnlySupported}
    [] w = "docker" -> {MsgNoDocker, MsgDockerLoading}
    [] OTHER -> {}

(***************************************************************************)
(* Payloads.  A list payload is the sequence of its records, a record      *)
(* being named by a number (a service by its checked_at_ms); the CPU and   *)
(* RAM snapshots are the tuples of their numeric fields; the Spotify track *)
(* is optional.                                                            *)
(***************************************************************************)
InitialData(w) ==
  CASE w = "cpu" -> <<0>>
    [] w = "ram" -> <<0, 0, 0>>
    [] OTHER -> << >>

Payloads(w) ==
  CASE w = "cpu" -> {<<42>>, <<7>>}
    [] w = "ram" -> {<<4, 8, 50>>, <<6, 8, 75>>}
    [] w = "health" -> {<< >>, <<3000, 5000>>, <<7000>>, <<0>>}
    [] w = "spotify" -> {Some(1), Some(2)}
    [] OTHER -> {<< >>, <<1>>, <<1, 2>>}

HasLoadingFlag(w) == w \in {"cpu", "ram", "health", "sentry", "jira"}

\* What a settled invoke() hands to the continuation.
Success(p) == [ok |-> TRUE, data |-> p, err |-> << >>]
Failure(m) == [ok |-> FALSE, data |-> << >>, err |-> m]
NoOutcome == [ok |-> FALSE, data |-> << >>, err |-> <<"none">>]

Outcomes(w) == {Success(p) : p \in Payloads(w)} \cup {Failure(m) : m \in Messages(w)}

\* A run that follows two components draws from fewer outcomes and is cut
\* earlier than a run that follows one.
PairPayloads(w) ==
  CASE w = "cpu" -> {<<42>>}
    [] w = "ram" -> {<<4, 8, 50>>}
    [] OTHER -> {<<1, 2>>}

PairOutcomes(w) ==
  {Success(p) : p \in PairPayloads(w)}
    \cup {Failure(MsgRefused), Failure(MsgLoading)}

\* The clock readings a fetch of the service health may fail at: later than
\* every checked_at_ms of Payloads.
AttemptTimes == {8000, 9000}

Single == Cardinality(page) = 1
CallLimit == IF Single THEN MaxCalls ELSE MaxPairCalls
StopLimit == IF Single THEN MaxStops ELSE 1
OpenLimit == IF Single THEN MaxOpens ELSE 1
Drawn(w) == IF Single THEN Outcomes(w) ELSE PairOutcomes(w)

PairPages == {{"cpu", "ram"}, {"ram", "jira"}}

St(d, e, l) == [data |-> d, error |-> e, isLoading |-> l]

(***************************************************************************)
(* HealthUp: the "Last checked" label.  A label is "n/a" or a time of day  *)
(* (toLocaleTimeString with hour, minute and second: the second of the     *)
(* day, the time zone left aside).                                         *)
(***************************************************************************)
NA == [na |-> TRUE, hms |-> 0]

formatCheckedAt_NoZeroCheck(checkedAtMs) ==
  [na |-> FALSE, hms |-> (checkedAtMs \div 1000) % 86400]

formatCheckedAt(checkedAtMs) ==
  IF checkedAtMs = 0 THEN NA
  ELSE [na |-> FALSE, hms |-> (checkedAtMs \div 1000) % 86400]

MathMax_First(xs) == xs[1]

\* Math.max(...xs) of a non-empty list.
RECURSIVE MathMax(_)
MathMax(xs) ==
  IF Len(xs) = 1 THEN xs[1]
  ELSE LET m == MathMax(Tail(xs)) IN IF xs[1] > m THEN xs[1] ELSE m

\* The expression of the $derived, of the services list.
lastCheckedLabelOf(services) ==
  IF Len(services) > 0 THEN formatCheckedAt(MathMax(services)) ELSE NA

\* The state after the component scripts ran.  The components share no
\* state, so a run follows one component placed on the page.
InitState ==
  /\ phase = [w \in Widgets |-> "created"]
  /\ data = [w \in Widgets |-> InitialData(w)]
  /\ error = [w \in Widgets |-> None]
  /\ isLoading = [w \in Widgets |-> HasLoadingFlag(w)]
  /\ interval = [w \in Widgets |-> 0]
  /\ timers = {}
  /\ nextHandle = 1
  /\ started = [w \in Widgets |-> 0]
  /\ pending = [w \in Widgets |-> {}]
  /\ lastApplied = [w \in Widgets |-> 0]
  /\ lastOutcome = [w \in Widgets |-> NoOutcome]
  /\ succeeded = [w \in Widgets |-> FALSE]
  /\ lastGood = [w \in Widgets |-> InitialData(w)]
  /\ failsSince = [w \in Widgets |-> 0]
  /\ before = [w \in Widgets |-> St(InitialData(w), None, HasLoadingFlag(w))]
  /\ stops = [w \in Widgets |-> 0]
  /\ ticks = [w \in Widgets |-> 0]
  /\ lastCheckedLabel = lastCheckedLabelOf(InitialData("health"))
  /\ failedAt = 0
  /\ openLog = 0
  /\ opening = [w \in Widgets |-> 0]

Init == page \in {{w} : w \in Widgets} /\ InitState

\* The runs followed to their end: a component that keeps its payload on
\* failure, one that resets it, and the one with the nullable track.
FairWidgets == {"health", "docker", "spotify"}

InitFair == page \in {{w} : w \in FairWidgets} /\ InitState

\* Two components on the page.
InitPair == page \in PairPages /\ InitState

(***************************************************************************)
(* The continuation of a fetch: the try / catch / finally of each update   *)
(* function, from the component state s and the outcome o to the new       *)
(* component state.  invoke() rejects with the message string, so          *)
(* String(err) is that message.                                            *)
(***************************************************************************)
updateCpuUsage_NoClear(s, o) ==
  IF o.ok THEN St(o.data, s.error, FALSE)
  ELSE St(s.data, Some(o.err), FALSE)

updateCpuUsage(s, o) ==
  IF o.ok THEN St(o.data, None, FALSE)
  ELSE St(s.data, Some(o.err), FALSE)

updateRamUsage_KeepsFirstError(s, o) ==
  IF o.ok THEN St(o.data, None, FALSE)
  ELSE St(s.data, IF s.error = None THEN Some(o.err) ELSE s.error, FALSE)

updateRamUsage(s, o) ==
  IF o.ok THEN St(o.data, None, FALSE)
  ELSE St(s.data, Some(o.err), FALSE)

updateHealth(s, o) ==
  IF o.ok THEN St(o.data, None, FALSE)
  ELSE St(s.data, Some(o.err), FALSE)

updateIssues_NoLoadingCheck(s, o) ==
  IF o.ok THEN St(o.data, None, FALSE)
  ELSE St(<< >>, Some(o.err), FALSE)

updateIssues(s, o) ==
  IF o.ok THEN St(o.data, None, FALSE)
  ELSE IF includes(toLowerCase(o.err), <<"loading">>)
       THEN St(s.data, None, TRUE)
       ELSE St(<< >>, Some(o.err), FALSE)

updateTickets_KeepsError(s, o) ==
  IF o.ok THEN St(o.data, None, FALSE)
  ELSE IF includes(toLowerCase(o.err), <<"loading">>)
       THEN St(s.data, s.error, TRUE)
       ELSE St(<< >>, Some(o.err), FALSE)

updateTickets(s, o) ==
  IF o.ok THEN St(o.data, None, FALSE)
  ELSE IF includes(toLowerCase(o.err), <<"loading">>)
       THEN St(s.data, None, TRUE)
       ELSE St(<< >>, Some(o.err), FALSE)

updateContainers_KeepsData(s, o) ==
  IF o.ok THEN St(o.data, None, s.isLoading)
  ELSE St(s.data, Some(o.err), s.isLoading)

updateContainers(s, o) ==
  IF o.ok THEN St(o.data, None, s.isLoading)
  ELSE St(<< >>, Some(o.err), s.isLoading)

updateTrack_NoCatch(s, o) ==
  IF o.ok THEN St(o.data, None, s.isLoading)
  ELSE s

updateTrack(s, o) ==
  IF o.ok THEN St(o.data, None, s.isLoading)
  ELSE St(None, Some(o.err), s.isLoading)

updateTicketsAlt(s, o) ==
  IF o.ok THEN St(o.data, None, s.isLoading)
  ELSE St(<< >>, Some(o.err), s.isLoading)

update(w, s, o) ==
  CASE w = "cpu" -> updateCpuUsage(s, o)
    [] w = "ram" -> updateRamUsage(s, o)
    [] w = "health" -> updateHealth(s, o)
    [] w = "sentry" -> updateIssues(s, o)
    [] w = "jira" -> updateTickets(s, o)
    [] w = "docker" -> updateContainers(s, o)
    [] w = "spotify" -> updateTrack(s, o)
    [] w = "jiraAlt" -> updateTicketsAlt(s, o)

Current(w) == St(data[w], error[w], isLoading[w])

(***************************************************************************)
(* Presentation: the branch of the template each component renders.        *)
(***************************************************************************)
\* {#if error}: null and the empty string are falsy.
Truthy(e) == e # None /\ e[1] # << >>

JiraErrorText_NoAuth(e) ==
  IF includes(e, <<"environment", " ", "variable">>) \/ includes(e, <<"JIRA_">>)
  THEN "Jira not configured. Set JIRA_EMAIL and JIRA_API_TOKEN in .env"
  ELSE "Error loading tickets"

JiraErrorText_AuthFirst(e) ==
  IF includes(e, <<"401">>) \/ includes(e, <<"403">>)
  THEN "Authentication failed. Check your email and API token in .env"
  ELSE IF includes(e, <<"environment", " ", "variable">>) \/ includes(e, <<"JIRA_">>)
       THEN "Jira not configured. Set JIRA_EMAIL and JIRA_API_TOKEN in .env"
       ELSE "Error loading tickets"

JiraErrorText(e) ==
  IF includes(e, <<"environment", " ", "variable">>) \/ includes(e, <<"JIRA_">>)
  THEN "Jira not configured. Set JIRA_EMAIL and JIRA_API_TOKEN in .env"
  ELSE IF includes(e, <<"401">>) \/ includes(e, <<"403">>)
       THEN "Authentication failed. Check your email and API token in .env"
       ELSE "Error loading tickets"

CpuView(s) ==
  IF s.isLoading THEN "Loading CPU usage..."
  ELSE IF Truthy(s.error) THEN "Unable to load CPU usage"
  ELSE "cpu usage"

RamView(s) ==
  IF s.isLoading THEN "Loading RAM usage..."
  ELSE IF Truthy(s.error) THEN "Unable to load RAM usage"
  ELSE "ram usage"

HealthView(s) ==
  IF s.isLoading THEN "Loading health checks..."
  ELSE IF Truthy(s.error) THEN "Unable to load health checks"
  ELSE IF Len(s.data) = 0 THEN "No services configured"
  ELSE "services"

SentryView(s) ==
  IF s.isLoading THEN "Loading Sentry issues..."
  ELSE IF Truthy(s.error)
       THEN IF includes(s.error[1], <<"SENTRY_AUTH_TOKEN">>)
            THEN "Sentry not configured. Set SENTRY_AUTH_TOKEN in .env"
            ELSE "Error loading issues"
  ELSE IF Len(s.data) = 0 THEN "No issues found"
  ELSE "issues"

JiraView(s) ==
  IF s.isLoading THEN "Loading Jira tickets..."
  ELSE IF Truthy(s.error) THEN JiraErrorText(s.error[1])
  ELSE IF Len(s.data) = 0 THEN "No tickets found"
  ELSE "tickets"

DockerView(s) ==
  IF Truthy(s.error)
  THEN IF includes(s.error[1], <<"command", " ", "not", " ", "found">>)
          \/ includes(s.error[1], <<"Failed", " ", "to", " ", "execute">>)
       THEN "Docker not installed or not running"
       ELSE "Error loading containers"
  ELSE IF Len(s.data) = 0 THEN "No running containers"
  ELSE "containers"

\* error?.includes(...) is undefined (falsy) when error is null.
SpotifyView(s) ==
  IF Truthy(s.error) \/ s.data = None
  THEN IF s.error # None /\ includes(s.error[1], <<"not", " ", "running">>)
       THEN "Spotify is not running"
       ELSE IF s.error # None /\ includes(s.error[1], <<"only", " ", "supported">>)
            THEN "Only supported on macOS"
            ELSE "No track playing"
  ELSE "track"

JiraAltView(s) ==
  IF Truthy(s.error) THEN JiraErrorText(s.error[1])
  ELSE IF Len(s.data) = 0 THEN "No tickets found"
  ELSE "tickets"

View(w) ==
  CASE w = "cpu" -> CpuView(Current(w))
    [] w = "ram" -> RamView(Current(w))
    [] w = "health" -> HealthView(Current(w))
    [] w = "sentry" -> SentryView(Current(w))
    [] w = "jira" -> JiraView(Current(w))
    [] w = "docker" -> DockerView(Current(w))
    [] w = "spotify" -> SpotifyView(Current(w))
    [] w = "jiraAlt" -> JiraAltView(Current(w))

(***************************************************************************)
(* Operations                                                              *)
(***************************************************************************)
\* invoke(): one more call of the component's adapter is outstanding.
Invoke(w) ==
  /\ started' = [started EXCEPT ![w] = @ + 1]
  /\ pending' = [pending EXCEPT ![w] = @ \cup {started[w] + 1}]

onMount_NoImmediate(w) ==
  /\ w \in page
  /\ phase[w] = "created"
  /\ interval' = [interval EXCEPT ![w] = nextHandle]
  /\ timers' = timers \cup {nextHandle}
  /\ nextHandle' = nextHandle + 1
  /\ phase' = [phase EXCEPT ![w] = "mounted"]
  /\ UNCHANGED <<page, data, error, isLoading, lastApplied, lastOutcome,
                 succeeded, lastGood, failsSince, before, stops, ticks,
                 lastCheckedLabel, failedAt, openLog, opening,
                 started, pending>>

\* onMount: the update function runs up to its await, then setInterval.
onMount(w) ==
  /\ w \in page
  /\ phase[w] = "created"
  /\ Invoke(w)
  /\ interval' = [interval EXCEPT ![w] = nextHandle]
  /\ timers' = timers \cup {nextHandle}
  /\ nextHandle' = nextHandle + 1
  /\ phase' = [phase EXCEPT ![w] = "mounted"]
  /\ UNCHANGED <<page, data, error, isLoading, lastApplied, lastOutcome,
                 succeeded, lastGood, failsSince, before, stops, ticks,
                 lastCheckedLabel, failedAt, openLog, opening>>

Tick_StopsOnError(w) ==
  /\ interval[w] \in timers
  /\ started[w] < CallLimit
  /\ error[w] = None
  /\ Invoke(w)
  /\ ticks' = [ticks EXCEPT ![w] = @ + 1]
  /\ UNCHANGED <<page, phase, data, error, isLoading, interval, timers,
                 nextHandle, lastApplied, lastOutcome, succeeded, lastGood,
                 failsSince, before, stops, lastCheckedLabel, failedAt,
                 openLog, opening>>

\* The interval timer fires: the update function runs up to its await.
Tick(w) ==
  /\ interval[w] \in timers
  /\ started[w] < CallLimit
  /\ Invoke(w)
  /\ ticks' = [ticks EXCEPT ![w] = @ + 1]
  /\ UNCHANGED <<page, phase, data, error, isLoading, interval, timers,
                 nextHandle, lastApplied, lastOutcome, succeeded, lastGood,
                 failsSince, before, stops, lastCheckedLabel, failedAt,
                 openLog, opening>>

Settle_SharedError(w, c, o) ==
  /\ c \in pending[w]
  /\ pending' = [pending EXCEPT ![w] = @ \ {c}]
  /\ LET s == update(w, Current(w), o) IN
       /\ data' = [data EXCEPT ![w] = s.data]
       /\ error' = [v \in Widgets |-> IF v \in page THEN s.error ELSE error[v]]
       /\ isLoading' = [isLoading EXCEPT ![w] = s.isLoading]
       /\ lastCheckedLabel' = IF w = "health" THEN lastCheckedLabelOf(s.data)
                              ELSE lastCheckedLabel
  /\ failedAt' \in IF w # "health" THEN {failedAt}
                   ELSE IF o.ok THEN {0} ELSE AttemptTimes
  /\ lastApplied' = [lastApplied EXCEPT ![w] = c]
  /\ lastOutcome' = [lastOutcome EXCEPT ![w] = o]
  /\ succeeded' = [succeeded EXCEPT ![w] = @ \/ o.ok]
  /\ lastGood' = [lastGood EXCEPT ![w] = IF o.ok THEN o.data ELSE @]
  /\ failsSince' = [failsSince EXCEPT ![w] = IF o.ok THEN 0 ELSE @ + 1]
  /\ before' = [before EXCEPT ![w] = Current(w)]
  /\ UNCHANGED <<page, phase, interval, timers, nextHandle, started, stops,
                 ticks, openLog, opening>>

\* Call c of component w settles with outcome o: the rest of the update
\* function (try tail, catch, finally) runs in one turn of the event loop.
Settle(w, c, o) ==
  /\ c \in pending[w]
  /\ pending' = [pending EXCEPT ![w] = @ \ {c}]
  /\ LET s == update(w, Current(w), o) IN
       /\ data' = [data EXCEPT ![w] = s.data]
       /\ error' = [error EXCEPT ![w] = s.error]
       /\ isLoading' = [isLoading EXCEPT ![w] = s.isLoading]
       /\ lastCheckedLabel' = IF w = "health" THEN lastCheckedLabelOf(s.data)
                              ELSE lastCheckedLabel
  /\ failedAt' \in IF w # "health" THEN {failedAt}
                   ELSE IF o.ok THEN {0} ELSE AttemptTimes
  /\ lastApplied' = [lastApplied EXCEPT ![w] = c]
  /\ lastOutcome' = [lastOutcome EXCEPT ![w] = o]
  /\ succeeded' = [succeeded EXCEPT ![w] = @ \/ o.ok]
  /\ lastGood' = [lastGood EXCEPT ![w] = IF o.ok THEN o.data ELSE @]
  /\ failsSince' = [failsSince EXCEPT ![w] = IF o.ok THEN 0 ELSE @ + 1]
  /\ before' = [before EXCEPT ![w] = Current(w)]
  /\ UNCHANGED <<page, phase, interval, timers, nextHandle, started, stops,
                 ticks, openLog, opening>>

onDestroy_KeepsTimer(w) ==
  /\ w \in page
  /\ stops[w] < StopLimit
  /\ stops' = [stops EXCEPT ![w] = @ + 1]
  /\ phase' = [phase EXCEPT ![w] = "destroyed"]
  /\ UNCHANGED <<page, data, error, isLoading, interval, timers, nextHandle,
                 started, pending, lastApplied, lastOutcome, succeeded,
                 lastGood, failsSince, before, ticks, lastCheckedLabel,
                 failedAt, openLog, opening>>

onDestroy_Toggles(w) ==
  /\ w \in page
  /\ stops[w] < StopLimit
  /\ stops' = [stops EXCEPT ![w] = @ + 1]
  /\ timers' = IF interval[w] = 0 THEN timers
               ELSE IF interval[w] \in timers THEN timers \ {interval[w]}
               ELSE timers \cup {interval[w]}
  /\ phase' = [phase EXCEPT ![w] = "destroyed"]
  /\ UNCHANGED <<page, data, error, isLoading, interval, nextHandle, started,
                 pending, lastApplied, lastOutcome, succeeded, lastGood,
                 failsSince, before, ticks, lastCheckedLabel, failedAt,
                 openLog, opening>>

\* onDestroy: if (interval) clearInterval(interval).  A component destroyed
\* before its onMount callback ran never runs it; running the teardown again
\* finds the handle already cleared (clearInterval of a cleared handle does
\* nothing).
onDestroy(w) ==
  /\ w \in page
  /\ stops[w] < StopLimit
  /\ stops' = [stops EXCEPT ![w] = @ + 1]
  /\ timers' = IF interval[w] # 0 THEN timers \ {interval[w]} ELSE timers
  /\ phase' = [phase EXCEPT ![w] = "destroyed"]
  /\ UNCHANGED <<page, data, error, isLoading, interval, nextHandle, started,
                 pending, lastApplied, lastOutcome, succeeded, lastGood,
                 failsSince, before, ticks, lastCheckedLabel, failedAt,
                 openLog, opening>>

(***************************************************************************)
(* Opening a link.  The records of the service-health, Sentry and Jira     *)
(* components are buttons that hand the record's url to openUrl of the     *)
(* opener plugin.  The handlers are async: the click runs them up to       *)
(* await openUrl(url), and the rest (the catch, which logs) runs when      *)
(* openUrl settles.                                                        *)
(***************************************************************************)
Urls == {<< >>, <<"https://example.test/1">>}

\* Whether the handler, given the url, reaches its await openUrl(url).
openService(url) == TRUE

\* if (!url) return;
openIssue(url) == url # << >>

openTicket(url) == TRUE

callsOpenUrl(w, url) ==
  CASE w = "health" -> openService(url)
    [] w = "sentry" -> openIssue(url)
    [] OTHER -> openTicket(url)

\* The template branches that render the records as buttons.
RecordViews == {"services", "issues", "tickets"}

\* A click on a record of component w: the handler runs up to its await,
\* leaving its call of openUrl outstanding.
onclick(w) ==
  /\ w \in page
  /\ phase[w] = "mounted"
  /\ View(w) \in RecordViews
  /\ \E url \in Urls :
       IF callsOpenUrl(w, url)
       THEN /\ opening[w] + openLog < OpenLimit
            /\ opening' = [opening EXCEPT ![w] = @ + 1]
       ELSE opening' = opening
  /\ UNCHANGED <<page, phase, data, error, isLoading, interval, timers,
                 nextHandle, started, pending, lastApplied, lastOutcome,
                 succeeded, lastGood, failsSince, before, stops, ticks,
                 lastCheckedLabel, failedAt, openLog>>

openUrlSettled_StoresError(w, ok) ==
  /\ opening[w] > 0
  /\ opening' = [opening EXCEPT ![w] = @ - 1]
  /\ openLog' = IF ok THEN openLog ELSE openLog + 1
  /\ error' = [error EXCEPT ![w] = IF ok THEN @ ELSE Some(MsgRefused)]
  /\ UNCHANGED <<page, phase, data, isLoading, interval, timers,
                 nextHandle, started, pending, lastApplied, lastOutcome,
                 succeeded, lastGood, failsSince, before, stops, ticks,
                 lastCheckedLabel, failedAt>>

\* An outstanding openUrl of component w settles: the rest of the handler
\* runs, in a later turn of the event loop than the click, whatever became
\* of the component in between; the catch writes one line to the console.
openUrlSettled(w, ok) ==
  /\ opening[w] > 0
  /\ opening' = [opening EXCEPT ![w] = @ - 1]
  /\ openLog' = IF ok THEN openLog ELSE openLog + 1
  /\ UNCHANGED <<page, phase, data, error, isLoading, interval, timers,
                 nextHandle, started, pending, lastApplied, lastOutcome,
                 succeeded, lastGood, failsSince, before, stops, ticks,
                 lastCheckedLabel, failedAt>>

Next ==
  \E w \in Widgets :
    \/ onMount(w)
    \/ Tick(w)
    \/ \E c \in pending[w] : \E o \in Drawn(w) : Settle(w, c, o)
    \/ onclick(w)
    \/ \E ok \in BOOLEAN : openUrlSettled(w, ok)
    \/ onDestroy(w)

Spec == Init /\ [][Next]_vars

SpecPair == InitPair /\ [][Next]_vars

\* setInterval keeps firing the callback until clearInterval: a timer
\* callback that stays due is run.
SpecFair == InitFair /\ [][Next]_vars /\ \A w \in FairWidgets : WF_vars(Tick(w))

(***************************************************************************)
(* Markers the components look for in a failure message.                   *)
(***************************************************************************)
\* errText.toLowerCase().includes("loading")
HasLoadingMarker(m) == includes(toLowerCase(m), <<"loading">>)

\* error.includes("401") || error.includes("403")
HasAuthMarker(m) == includes(m, <<"401">>) \/ includes(m, <<"403">>)

\* The not-configured and not-supported markers of each component.
HasConfigMarker(w, m) ==
  CASE w \in {"jira", "jiraAlt"} ->
         includes(m, <<"environment", " ", "variable">>) \/ includes(m, <<"JIRA_">>)
    [] w = "sentry" -> includes(m, <<"SENTRY_AUTH_TOKEN">>)
    [] w = "docker" ->
         \/ includes(m, <<"command", " ", "not", " ", "found">>)
         \/ includes(m, <<"Failed", " ", "to", " ", "execute">>)
    [] w = "spotify" ->
         includes(m, <<"not", " ", "running">>) \/ includes(m, <<"only", " ", "supported">>)
    [] OTHER -> FALSE

AuthGuidance == "Authentication failed. Check your email and API token in .env"

\* The generic error text of each component (the Spotify component has none).
GenericErrorTexts(w) ==
  CASE w = "cpu" -> {"Unable to load CPU usage"}
    [] w = "ram" -> {"Unable to load RAM usage"}
    [] w = "health" -> {"Unable to load health checks"}
    [] w = "sentry" -> {"Error loading issues"}
    [] w \in {"jira", "jiraAlt"} -> {"Error loading tickets"}
    [] w = "docker" -> {"Error loading containers"}
    [] OTHER -> {}

\* The outcome applied last to component w was a failure / a success.
LastFailed(w) == lastApplied[w] > 0 /\ ~lastOutcome[w].ok
LastSucceeded(w) == lastApplied[w] > 0 /\ lastOutcome[w].ok

(***************************************************************************)
(* Claims                                                                  *)
(***************************************************************************)

\* C1: in every component, after a success followed by one or
\* more failures the stored payload is still the payload of that success.
C1_PayloadSurvivesFailures ==
  \A w \in page :
    (succeeded[w] /\ failsSince[w] >= 1) => data[w] = lastGood[w]

\* C2: once a component has had a successful fetch, a later failure never
\* sets its loading flag again; it leaves the failure stored as the error.
C2_NoReturnToLoading ==
  \A w \in page :
    (succeeded[w] /\ failsSince[w] >= 1) =>
      (~isLoading[w] /\ error[w] = Some(lastOutcome[w].err))

\* C3: a component never has more than one adapter call outstanding.
C3_NoOverlap ==
  \A w \in page : Cardinality(pending[w]) <= 1

\* C4: once a component is destroyed, no step changes its payload, error or
\* loading flag (a fetch in flight at the stop is discarded on arrival).
C4_StoppedDiscardsResults ==
  [][\A w \in Widgets :
       phase[w] = "destroyed" =>
         (data'[w] = data[w] /\ error'[w] = error[w] /\ isLoading'[w] = isLoading[w])]_vars

\* C5: a destroyed component holds no active timer, and no step invokes its
\* adapter again.
C5_NoInvokeAfterStop ==
  [][\A w \in Widgets :
       /\ phase'[w] = "destroyed" => interval'[w] \notin timers'
       /\ phase[w] = "destroyed" => started'[w] = started[w]]_vars

C5_Witness ==
  \E w \in page :
    /\ phase[w] = "destroyed"
    /\ interval[w] # 0 /\ interval[w] \notin timers
    /\ started[w] >= 2 /\ started[w] < MaxCalls
    /\ pending[w] # {}
    /\ lastApplied[w] > 0

\* C6: the outcomes of a component's fetches are applied in the order the
\* fetches were started.
C6_AppliedInStartOrder ==
  [][\A w \in Widgets : lastApplied'[w] >= lastApplied[w]]_vars

\* C7: a failure whose message holds a not-configured, auth or
\* not-supported marker and also "loading" is stored as the error, and the
\* component is not loading.
C7_ActionableBeatsLoading ==
  \A w \in page :
    ( /\ LastFailed(w)
      /\ HasConfigMarker(w, lastOutcome[w].err) \/ HasAuthMarker(lastOutcome[w].err)
      /\ HasLoadingMarker(lastOutcome[w].err) ) =>
      (~isLoading[w] /\ error[w] = Some(lastOutcome[w].err))

\* C8 (as stated): after a failure whose message contains 401 or 403 the
\* Jira and Sentry components present the authentication guidance.
C8_AuthMarkerGivesAuthGuidance ==
  \A w \in page \cap {"jira", "jiraAlt", "sentry"} :
    (LastFailed(w) /\ HasAuthMarker(lastOutcome[w].err)) => View(w) = AuthGuidance

\* C8 (amended): after a failure whose message contains 401 or 403 and no
\* not-configured marker, the Jira component presents the authentication
\* guidance, whatever else the message contains; only JiraTickets.svelte
\* presents its loading text instead when the message contains "loading".
C8_JiraAuthGuidance ==
  \A w \in page \cap {"jira", "jiraAlt"} :
    ( /\ LastFailed(w)
      /\ HasAuthMarker(lastOutcome[w].err)
      /\ ~HasConfigMarker(w, lastOutcome[w].err) ) =>
      View(w) = IF w = "jira" /\ HasLoadingMarker(lastOutcome[w].err)
                THEN "Loading Jira tickets..."
                ELSE AuthGuidance

C8_Witness ==
  \E w \in page \cap {"jira", "jiraAlt"} :
    /\ LastFailed(w)
    /\ lastOutcome[w].err = MsgAuthNet
    /\ View(w) = AuthGuidance

\* C9: after a failure whose message holds no marker the component knows,
\* the component presents its generic error text.  (Stated for the
\* non-empty messages; the empty message is falsy in every template and
\* presents the data view.)
C9_UnknownGivesGenericError ==
  \A w \in page :
    ( /\ LastFailed(w)
      /\ lastOutcome[w].err # MsgEmpty
      /\ ~HasConfigMarker(w, lastOutcome[w].err)
      /\ ~HasAuthMarker(lastOutcome[w].err)
      /\ ~HasLoadingMarker(lastOutcome[w].err) ) =>
      View(w) \in GenericErrorTexts(w)

\* C10: after a success the component holds the returned payload, no error,
\* and its loading flag is off.
C10_SuccessGivesReady ==
  \A w \in page :
    LastSucceeded(w) =>
      (data[w] = lastOutcome[w].data /\ error[w] = None /\ ~isLoading[w])

C10_Witness ==
  \E w \in page :
    /\ LastSucceeded(w)
    /\ before[w].error # None
    /\ before[w].data # lastOutcome[w].data
    /\ data[w] = lastOutcome[w].data /\ error[w] = None

\* The loading text of each component (three components have none).
LoadingTexts(w) ==
  CASE w = "cpu" -> {"Loading CPU usage..."}
    [] w = "ram" -> {"Loading RAM usage..."}
    [] w = "health" -> {"Loading health checks..."}
    [] w = "sentry" -> {"Loading Sentry issues..."}
    [] w = "jira" -> {"Loading Jira tickets..."}
    [] OTHER -> {}

ChecksLoadingMarker == {"sentry", "jira"}

\* C11 (as stated): in every component, a failure whose message contains
\* "loading", applied while the component is loading, leaves it loading
\* with no error stored.
C11_StillLoadingKeepsLoading ==
  \A w \in page :
    ( /\ LastFailed(w)
      /\ before[w].isLoading
      /\ HasLoadingMarker(lastOutcome[w].err) ) =>
      (isLoading[w] /\ error[w] = None)

\* C11 (amended): in the Sentry component and in JiraTickets.svelte, a
\* failure whose message contains "loading", applied while the component is
\* loading, leaves it loading with no error stored.
C11_StillLoadingKeepsLoading_Checkers ==
  \A w \in page \cap ChecksLoadingMarker :
    ( /\ LastFailed(w)
      /\ before[w].isLoading
      /\ HasLoadingMarker(lastOutcome[w].err) ) =>
      (isLoading[w] /\ error[w] = None)

C11_Witness ==
  \E w \in page \cap ChecksLoadingMarker :
    /\ LastFailed(w)
    /\ ~succeeded[w]
    /\ before[w].isLoading /\ before[w].error = None
    /\ lastOutcome[w].err = MsgLoading
    /\ isLoading[w] /\ error[w] = None

\* C12: a mounted component presents its loading text until its first
\* fetch settles.
C12_LoadingUntilFirstOutcome ==
  \A w \in page :
    (phase[w] = "mounted" /\ lastApplied[w] = 0) => View(w) \in LoadingTexts(w)

JiraNotConfigured == "Jira not configured. Set JIRA_EMAIL and JIRA_API_TOKEN in .env"

\* C13: once the teardown of a component has run twice, the component
\* holds no active timer, and after the first run no step invokes its
\* adapter.
C13_StopTwice ==
  [][\A w \in Widgets :
       /\ stops'[w] >= 2 => interval'[w] \notin timers'
       /\ stops[w] >= 1 => started'[w] = started[w]]_vars

C13_Witness ==
  \E w \in page :
    /\ stops[w] >= 2
    /\ interval[w] # 0 /\ interval[w] \notin timers
    /\ started[w] >= 1 /\ started[w] < MaxCalls

\* C14: the "Last checked" label is "n/a" whenever the service list is
\* empty, the component is loading, or the latest check time is 0.
C14_NoDataSentinel ==
  "health" \in page =>
    ( ( \/ Len(data["health"]) = 0
        \/ isLoading["health"]
        \/ \A i \in 1..Len(data["health"]) : data["health"][i] = 0 )
      => lastCheckedLabel = NA )

C14_Witness ==
  /\ "health" \in page
  /\ LastSucceeded("health")
  /\ data["health"] = <<0>>
  /\ lastCheckedLabel = NA

\* C15: a step in which a fetch of one component settles leaves the
\* payload, error, loading flag, timer and calls of every other component
\* as they were.
C15_Isolation ==
  [][\A w \in Widgets :
       (pending'[w] # pending[w] /\ started'[w] = started[w]) =>
         \A v \in Widgets \ {w} :
           /\ data'[v] = data[v] /\ error'[v] = error[v]
           /\ isLoading'[v] = isLoading[v]
           /\ interval'[v] = interval[v]
           /\ (interval'[v] \in timers') = (interval[v] \in timers)
           /\ pending'[v] = pending[v] /\ started'[v] = started[v]]_vars

C15_Witness ==
  \E w \in page : \E v \in page \ {w} :
    /\ LastFailed(w) /\ error[w] = Some(lastOutcome[w].err)
    /\ LastSucceeded(v)
    /\ data[v] = lastOutcome[v].data /\ error[v] = None /\ ~isLoading[v]
    /\ interval[v] \in timers
    /\ pending[v] # {}

\* C16: after every failure the component either holds the failure message
\* as its error, not loading, or is loading with no error; and a mounted
\* component keeps its timer, whatever its fetches did.
C16_FailuresAreAbsorbed ==
  \A w \in page :
    /\ LastFailed(w) =>
         \/ (error[w] = Some(lastOutcome[w].err) /\ ~isLoading[w])
         \/ (error[w] = None /\ isLoading[w])
    /\ phase[w] = "mounted" => interval[w] \in timers

C16_Witness ==
  \E w \in page :
    /\ LastFailed(w) /\ failsSince[w] >= 2
    /\ error[w] = Some(lastOutcome[w].err)
    /\ phase[w] = "mounted" /\ interval[w] \in timers
    /\ started[w] < MaxCalls

\* C17: a mounted component has invoked its adapter once at its start and
\* once per timer tick, and its timer can fire again.
C17_ImmediateThenPerTick ==
  \A w \in page :
    /\ phase[w] = "created" => started[w] = 0
    /\ phase[w] = "mounted" =>
         /\ started[w] = 1 + ticks[w]
         /\ interval[w] \in timers
         /\ started[w] < MaxCalls => ENABLED Tick(w)

C17_Witness ==
  \E w \in page :
    /\ phase[w] = "mounted"
    /\ ticks[w] >= 2 /\ started[w] = 1 + ticks[w]

\* C18: after a failure whose message holds a Jira not-configured marker
\* and not "loading", the Jira component presents the not-configured
\* guidance, also when the message holds 401 or 403.
C18_JiraNotConfiguredGuidance ==
  \A w \in page \cap {"jira", "jiraAlt"} :
    ( /\ LastFailed(w)
      /\ HasConfigMarker(w, lastOutcome[w].err)
      /\ ~HasLoadingMarker(lastOutcome[w].err) ) =>
      View(w) = JiraNotConfigured

C18_Witness ==
  \E w \in page \cap {"jira", "jiraAlt"} :
    /\ LastFailed(w)
    /\ lastOutcome[w].err = MsgJiraAuth
    /\ HasAuthMarker(lastOutcome[w].err)
    /\ View(w) = JiraNotConfigured

\* C19: the loading flag is never set while an error is stored.
C19_LoadingExcludesError ==
  \A w \in page : ~(isLoading[w] /\ error[w] # None)

C19_Witness ==
  \E w \in page :
    /\ LastFailed(w)
    /\ before[w].error # None /\ ~before[w].isLoading
    /\ isLoading[w] /\ error[w] = None
    /\ Cardinality(pending[w]) >= 1

\* C20: the "Last checked" label is the formatted greatest checked_at_ms of
\* the services currently held, "n/a" when there are none.
C20_LabelIsLatestCheck ==
  "health" \in page =>
    IF Len(data["health"]) = 0 THEN lastCheckedLabel = NA
    ELSE \E i \in 1..Len(data["health"]) :
           /\ \A j \in 1..Len(data["health"]) : data["health"][i] >= data["health"][j]
           /\ lastCheckedLabel = formatCheckedAt(data["health"][i])

C20_Witness ==
  /\ "health" \in page
  /\ LastFailed("health")
  /\ data["health"] = <<3000, 5000>>
  /\ lastCheckedLabel = [na |-> FALSE, hms |-> 5]

\* C21: when the outcome applied last to the service-health component is a
\* failure, the "Last checked" label shows the time of that failed attempt.
C21_LabelReflectsFailedAttempt ==
  ("health" \in page /\ LastFailed("health")) =>
    lastCheckedLabel = formatCheckedAt(failedAt)

\* C23: a failure without the "loading" marker applied to a component that
\* holds an error leaves it holding an error, which is the message of that
\* failure, with the payload it held and the loading flag off.
C23_NewestFailureReplacesError ==
  \A w \in page :
    ( /\ LastFailed(w)
      /\ before[w].error # None
      /\ ~HasLoadingMarker(lastOutcome[w].err) )
      => /\ error[w] = Some(lastOutcome[w].err)
         /\ data[w] = before[w].data
         /\ ~isLoading[w]

C23_Witness ==
  \E w \in page :
    /\ LastFailed(w)
    /\ succeeded[w] /\ failsSince[w] >= 2
    /\ before[w].error = Some(MsgRefused)
    /\ before[w].data # InitialData(w)
    /\ error[w] = Some(MsgAuthNet)
    /\ data[w] = before[w].data

\* The components whose catch block resets the payload.
ResetsData == {"jira", "sentry", "docker", "spotify", "jiraAlt"}

\* C25: in the components that reset their payload on failure, a stored
\* error implies the stored payload is empty (the empty list, the null
\* track), whatever the order fetches settle in.
C25_ErrorImpliesEmptyPayload ==
  \A w \in page \cap ResetsData : error[w] # None => data[w] = << >>

\* A failure applied after a success that brought data, with a later call
\* of the component still outstanding or applied out of order.
C25_Witness ==
  \E w \in page \cap ResetsData :
    /\ succeeded[w] /\ lastGood[w] # << >>
    /\ LastFailed(w)
    /\ before[w].data # << >>
    /\ lastApplied[w] < started[w]
    /\ error[w] # None /\ data[w] = << >>

\* C24: opening a link leaves the component's payload, error, loading
\* flag, label, timer and outstanding fetches as they were, at the click and
\* when openUrl resolves or rejects; a line is logged only when an
\* outstanding openUrl settles, one line at a time.
C24_OpenLinkChangesNothing ==
  [][ (opening' # opening \/ openLog' # openLog) =>
        /\ openLog' \in {openLog, openLog + 1}
        /\ openLog' # openLog =>
             \E w \in page : opening[w] > 0 /\ opening'[w] = opening[w] - 1
        /\ UNCHANGED <<page, phase, data, error, isLoading, interval, timers,
                       nextHandle, started, pending, lastCheckedLabel>> ]_vars

\* A failed opening has been logged, of a component that still shows its
\* records or has been torn down since the click.
C24_Witness ==
  \E w \in page :
    /\ openLog = 1 /\ opening[w] = 0
    /\ error[w] = None /\ ~isLoading[w] /\ data[w] # << >>
    /\ phase[w] = "destroyed"

\* C22: a mounted component whose outcome applied last is a failure calls
\* its adapter again on a later tick unless it is torn down first (n counts
\* the calls made so far, below the cut of the run; the run follows the one
\* component on the page); and a success applied
\* to a component that holds an error stores the new payload, clears the
\* error and turns the loading flag off.
C22_DegradedIsNotTerminal ==
  /\ \A n \in 1..(MaxCalls - 1) :
       (\E w \in page :
          LastFailed(w) /\ phase[w] = "mounted" /\ started[w] = n)
         ~> (\E w \in page : started[w] > n \/ phase[w] = "destroyed")
  /\ [](\A w \in page :
          (LastSucceeded(w) /\ before[w].error # None)
            => /\ data[w] = lastOutcome[w].data
               /\ error[w] = None
               /\ ~isLoading[w])

\* A success that came from a tick after a failure, applied to a component
\* that held that failure's error.
C22_Witness ==
  \E w \in page :
    /\ LastSucceeded(w)
    /\ before[w].error # None
    /\ ticks[w] >= 1 /\ lastApplied[w] >= 2
    /\ data[w] = lastOutcome[w].data /\ data[w] # InitialData(w)
    /\ error[w] = None

====
